---- MODULE Spec2Model ----
(***************************************************************************)
(* kafka-health: a run-to-completion probe (src/main.go, func main).       *)
(* The run splits the -topics flag, creates a broker client, resolves the  *)
(* working topic list, then scans topic by topic and partition by          *)
(* partition, comparing each replica set's size with -replicaLevel.        *)
(* Every failure goes through logrus Fatal, which logs and then calls      *)
(* os.Exit(1); os.Exit does not run deferred calls.                        *)
(*                                                                         *)
(* A string is a sequence of one-character strings, so that strings.Split  *)
(* is computed and not assumed.  The broker is the environment: each query *)
(* answers with an error or with a value drawn from a bounded set.         *)
(***************************************************************************)
EXTENDS Integers, Sequences, FiniteSets, TLC

VARIABLES
    pc,            \* position of main: "newClient", "resolve", "topics", "partitions", "exited"
    topicsFlag,    \* *topics, the -topics flag value
    replicaLevel,  \* *replicaLevel, the -replicaLevel flag value
    topicsList,    \* topicsList
    ti,            \* index of the outer range loop over topicsList
    partitions,    \* partitions of the topic being scanned
    pi,            \* index of the inner range loop over partitions
    client,        \* "none" before NewClient, then "open", then "closed"
    closes,        \* number of calls of client.Close()
    exitCode,      \* process exit status, NoExit while running
    replicas,      \* replicas of the partition being checked (nil when none)
    fatal,         \* the entry handed to logrus Fatal/Fatalf, if any
    queries        \* the broker queries issued so far, in order, each with its
                   \* outcome; the answer to a Replicas query is in replicas

vars == <<pc, topicsFlag, replicaLevel, topicsList, ti, partitions, pi,
          replicas, client, closes, exitCode, fatal, queries>>

----------------------------------------------------------------------------
(* Bounds *)

MaxTopics == 2
MaxPartitions == 2
MaxReplicas == 3
MaxReplicaLevel == 3
MaxNegativeLevel == 2

(* Inputs *)

Sep == ","
NoExit == -1

\* topic names a user may type between the separators
Names == {<<>>, <<"a">>, <<"b">>}

RECURSIVE Join(_)
Join(names) ==
    IF Len(names) = 1 THEN names[1]
    ELSE names[1] \o <<Sep>> \o Join(Tail(names))

RECURSIVE SeqsOfLen(_, _)
SeqsOfLen(S, n) ==
    IF n = 0 THEN {<<>>}
    ELSE {<<x>> \o s : x \in S, s \in SeqsOfLen(S, n - 1)}

\* the values of the -topics flag: up to MaxTopics names joined by commas
TopicsFlags == {Join(names) : names \in UNION {SeqsOfLen(Names, n) : n \in 1 .. MaxTopics}}

ReplicaLevels == (0 - MaxNegativeLevel) .. MaxReplicaLevel

\* what client.Topics() may answer: the names known to the cluster
BrokerTopicLists == {<<>>, << <<"a">> >>, << <<"b">> >>,
                     << <<"a">>, <<"b">> >>, << <<"b">>, <<"a">> >>}

Reverse(s) == [i \in 1 .. Len(s) |-> s[Len(s) + 1 - i]]

\* what client.Partitions(topic) may answer: distinct ids in broker order
PartitionLists ==
    LET Asc(n) == [i \in 1 .. n |-> i - 1]
    IN  {Asc(n) : n \in 0 .. MaxPartitions} \cup {Reverse(Asc(n)) : n \in 0 .. MaxPartitions}

\* what client.Replicas(topic, partition) may answer: broker node ids
ReplicaSets == {[i \in 1 .. n |-> i] : n \in 0 .. MaxReplicas}

Errors == {"ErrOutOfBrokers", "ErrUnknownTopicOrPartition"}

----------------------------------------------------------------------------
(* strings.Split(s, ","): the substrings between separators, *)
(* one more than the number of separators                     *)

RECURSIVE SplitFrom(_, _, _)
SplitFrom(s, i, cur) ==
    IF i > Len(s) THEN <<cur>>
    ELSE IF s[i] = Sep THEN <<cur>> \o SplitFrom(s, i + 1, <<>>)
    ELSE SplitFrom(s, i + 1, Append(cur, s[i]))

Split(s) == SplitFrom(s, 1, <<>>)

\* "if none provided, get the list from Kafka"
UnspecifiedFilterAnyLen(list) == Len(list) >= 1 /\ list[1] = <<>>
UnspecifiedFilter(list) == Len(list) = 1 /\ list[1] = <<>>

\* "exit with error if replication not OK"
NotReplicatedBelow(level, reps) == level > 0 /\ Len(reps) < level
NotReplicatedNoZero(level, reps) == Len(reps) # level
NotReplicatedNonZero(level, reps) == level # 0 /\ Len(reps) # level
NotReplicated(level, reps) == level > 0 /\ Len(reps) # level

\* the element the inner range loop visits at its i-th iteration
PartitionAtReversed(parts, i) == parts[Len(parts) + 1 - i]
PartitionAt(parts, i) == parts[i]

\* logrus.Fields of the three fatal entries of the scan
PartitionsErrFields(err, topic) == [err |-> err, topic |-> topic]
ReplicasErrFields(topic, partition) == [topic |-> topic, partition |-> partition]
NotReplicatedFields(topic, partition) == [topic |-> topic, partition |-> partition]

\* Entry.Fatal / Logger.Fatalf: log the entry, then os.Exit(1).
\* Deferred calls are not run by os.Exit: the client stays as it is.
Fatal(msg, fields) ==
    /\ fatal' = [msg |-> msg, fields |-> fields]
    /\ exitCode' = 1
    /\ pc' = "exited"
    /\ UNCHANGED <<client, closes>>

NoFields == [k \in {} |-> k]
NoFatal == [msg |-> "", fields |-> NoFields]

----------------------------------------------------------------------------
Init ==
    /\ topicsFlag \in TopicsFlags
    /\ replicaLevel \in ReplicaLevels
    /\ topicsList = Split(topicsFlag)
    /\ pc = "newClient"
    /\ ti = 1
    /\ partitions = <<>>
    /\ pi = 1
    /\ replicas = <<>>
    /\ client = "none"
    /\ closes = 0
    /\ exitCode = NoExit
    /\ fatal = NoFatal
    /\ queries = <<>>

\* sarama.NewClient succeeds: defer client.Close() is registered
NewClientOk ==
    /\ pc = "newClient"
    /\ client' = "open"
    /\ pc' = "resolve"
    /\ UNCHANGED <<topicsFlag, replicaLevel, topicsList, ti, partitions, pi,
                   replicas, closes, exitCode, fatal, queries>>

\* sarama.NewClient fails: Fatalf before the defer is registered. The entry
\* has no logrus.Fields; the error is an argument of the format string.
NewClientFail ==
    /\ pc = "newClient"
    /\ Fatal("Failed to start sarama client: %s", NoFields)
    /\ UNCHANGED <<topicsFlag, replicaLevel, topicsList, ti, partitions, pi,
                   replicas, queries>>

\* a topic filter was given: the list is used as it is
ResolveGiven ==
    /\ pc = "resolve"
    /\ ~UnspecifiedFilter(topicsList)
    /\ pc' = "topics"
    /\ UNCHANGED <<topicsFlag, replicaLevel, topicsList, ti, partitions, pi,
                   replicas, client, closes, exitCode, fatal, queries>>

\* no filter: client.Topics() answers with the cluster's topics
ResolveAllOk ==
    /\ pc = "resolve"
    /\ UnspecifiedFilter(topicsList)
    /\ \E names \in BrokerTopicLists :
         /\ queries' = Append(queries, [op |-> "Topics", ok |-> TRUE, result |-> names])
         /\ topicsList' = names
    /\ pc' = "topics"
    /\ UNCHANGED <<topicsFlag, replicaLevel, ti, partitions, pi,
                   replicas, client, closes, exitCode, fatal>>

\* no filter: client.Topics() fails
ResolveAllFailContinue ==
    /\ pc = "resolve"
    /\ UnspecifiedFilter(topicsList)
    /\ \E err \in Errors :
         queries' = Append(queries, [op |-> "Topics", ok |-> FALSE, result |-> err])
    /\ pc' = "topics"
    /\ UNCHANGED <<topicsFlag, replicaLevel, topicsList, ti, partitions, pi,
                   replicas, client, closes, exitCode, fatal>>
ResolveAllFail ==
    /\ pc = "resolve"
    /\ UnspecifiedFilter(topicsList)
    /\ \E err \in Errors :
         /\ queries' = Append(queries, [op |-> "Topics", ok |-> FALSE, result |-> err])
         /\ Fatal("Error Listing Topics", [err |-> err])
    /\ UNCHANGED <<topicsFlag, replicaLevel, topicsList, ti, partitions, pi, replicas>>

\* outer loop, one topic: client.Partitions(topic) answers.
\* With no partition the inner loop body never runs.
ListPartitionsOk ==
    /\ pc = "topics"
    /\ ti <= Len(topicsList)
    /\ \E parts \in PartitionLists :
         /\ queries' = Append(queries, [op |-> "Partitions", topic |-> topicsList[ti],
                                        ok |-> TRUE, result |-> parts])
         /\ partitions' = parts
         /\ IF parts = <<>>
            THEN ti' = ti + 1 /\ pc' = "topics"
            ELSE ti' = ti /\ pc' = "partitions"
    /\ pi' = 1
    /\ replicas' = <<>>
    /\ UNCHANGED <<topicsFlag, replicaLevel, topicsList,
                   client, closes, exitCode, fatal>>

\* outer loop, one topic: client.Partitions(topic) fails
ListPartitionsFailContinue ==
    /\ pc = "topics"
    /\ ti <= Len(topicsList)
    /\ \E err \in Errors :
         queries' = Append(queries, [op |-> "Partitions", topic |-> topicsList[ti],
                                     ok |-> FALSE, result |-> err])
    /\ partitions' = <<>>
    /\ replicas' = <<>>
    /\ ti' = ti + 1
    /\ UNCHANGED <<pc, topicsFlag, replicaLevel, topicsList, pi,
                   client, closes, exitCode, fatal>>
ListPartitionsFail ==
    /\ pc = "topics"
    /\ ti <= Len(topicsList)
    /\ \E err \in Errors :
         /\ queries' = Append(queries, [op |-> "Partitions", topic |-> topicsList[ti],
                                        ok |-> FALSE, result |-> err])
         /\ Fatal("Error Listing Partitions", PartitionsErrFields(err, topicsList[ti]))
    /\ partitions' = <<>>
    /\ replicas' = <<>>
    /\ UNCHANGED <<topicsFlag, replicaLevel, topicsList, ti, pi>>

\* the loop goes on after a partition: next partition, or next topic
Advance ==
    /\ IF pi < Len(partitions)
       THEN pi' = pi + 1 /\ ti' = ti /\ pc' = "partitions"
       ELSE pi' = pi /\ ti' = ti + 1 /\ pc' = "topics"
    /\ UNCHANGED <<client, closes, exitCode, fatal>>

\* inner loop, one partition: client.Replicas answers, then the policy
CheckReplicasNoExit ==
    /\ pc = "partitions"
    /\ pi <= Len(partitions)
    /\ LET topic == topicsList[ti]
           partition == PartitionAt(partitions, pi)
       IN  \E answer \in ReplicaSets :
             /\ queries' = Append(queries, [op |-> "Replicas", topic |-> topic,
                                            partition |-> partition, ok |-> TRUE])
             /\ replicas' = answer
             /\ Advance
    /\ UNCHANGED <<topicsFlag, replicaLevel, topicsList, partitions>>
CheckReplicas ==
    /\ pc = "partitions"
    /\ pi <= Len(partitions)
    /\ LET topic == topicsList[ti]
           partition == PartitionAt(partitions, pi)
       IN  \E answer \in ReplicaSets :
             /\ queries' = Append(queries, [op |-> "Replicas", topic |-> topic,
                                            partition |-> partition, ok |-> TRUE])
             /\ replicas' = answer
             /\ IF NotReplicated(replicaLevel, answer)
                THEN /\ Fatal("topics %s:%d is not fully replicated",
                              NotReplicatedFields(topic, partition))
                     /\ UNCHANGED <<ti, pi>>
                ELSE Advance
    /\ UNCHANGED <<topicsFlag, replicaLevel, topicsList, partitions>>

\* inner loop, one partition: client.Replicas fails
ReplicasFail ==
    /\ pc = "partitions"
    /\ pi <= Len(partitions)
    /\ LET topic == topicsList[ti]
           partition == PartitionAt(partitions, pi)
       IN  \E err \in Errors :
             /\ queries' = Append(queries, [op |-> "Replicas", topic |-> topic,
                                            partition |-> partition, ok |-> FALSE])
             /\ Fatal("Error listing partitions", ReplicasErrFields(topic, partition))
    /\ replicas' = <<>>
    /\ UNCHANGED <<topicsFlag, replicaLevel, topicsList, ti, partitions, pi>>

\* the outer loop is over: main returns, the deferred client.Close() runs,
\* the process exits with status 0
MainReturn ==
    /\ pc = "topics"
    /\ ti > Len(topicsList)
    /\ client' = "closed"
    /\ closes' = closes + 1
    /\ exitCode' = 0
    /\ pc' = "exited"
    /\ UNCHANGED <<topicsFlag, replicaLevel, topicsList, ti, partitions, pi,
                   replicas, fatal, queries>>

Next ==
    \/ NewClientOk
    \/ NewClientFail
    \/ ResolveGiven
    \/ ResolveAllOk
    \/ ResolveAllFail
    \/ ListPartitionsOk
    \/ ListPartitionsFail
    \/ CheckReplicas
    \/ ReplicasFail
    \/ MainReturn

Spec == Init /\ [][Next]_vars

----------------------------------------------------------------------------
(* Vocabulary of the properties *)

Requested == Split(topicsFlag)
Unspecified == << <<>> >>

Exited == pc = "exited"
ClientCreated == client # "none"
LastQ == queries[Len(queries)]

IsUnhealthy == fatal.msg = "topics %s:%d is not fully replicated"
IsTopicsError == fatal.msg = "Error Listing Topics"
IsPartitionsError == fatal.msg = "Error Listing Partitions"
IsReplicasError == fatal.msg = "Error listing partitions"
IsEvaluationError == IsTopicsError \/ IsPartitionsError \/ IsReplicasError

\* the latest query is a replica query the broker answered: replicas is its answer
Answered == queries # <<>> /\ LastQ.op = "Replicas" /\ LastQ.ok
\* the latest answer breaks the policy "exactly replicaLevel replicas"
FailsPolicy == Answered /\ replicaLevel > 0 /\ Len(replicas) # replicaLevel

\* the run ended with a fatal entry right after the latest query
EndedAtLast == Exited /\ exitCode # 0

ReplicasIdx == {i \in 1 .. Len(queries) : queries[i].op = "Replicas"}

\* the queries of the scan (all but a leading Topics query), and the
\* places of the Partitions queries among them
ScanStart == IF queries # <<>> /\ queries[1].op = "Topics" THEN 2 ELSE 1
PartitionsIdx ==
    SelectSeq([i \in 1 .. Len(queries) |-> i], LAMBDA i : queries[i].op = "Partitions")
\* the k-th visit of a topic: its Partitions query and the Replicas queries after it
VisitFirst(k) == PartitionsIdx[k]
VisitLast(k) == IF k < Len(PartitionsIdx) THEN PartitionsIdx[k + 1] - 1 ELSE Len(queries)
\* every partition listed at the k-th visit was queried and answered
VisitDone(k) ==
    /\ queries[VisitFirst(k)].ok
    /\ VisitLast(k) - VisitFirst(k) = Len(queries[VisitFirst(k)].result)
    /\ \A i \in VisitFirst(k) .. VisitLast(k) : queries[i].ok

\* the queries are the scan's, in topic-major and partition-minor order:
\* the k-th visit is of topicsList[k], and its j-th replica query is of the
\* j-th partition the broker listed
InScanOrder ==
    /\ \A i \in 1 .. Len(queries) : queries[i].op = "Topics" => i = 1
    /\ Len(PartitionsIdx) <= Len(topicsList)
    /\ Len(PartitionsIdx) > 0 => VisitFirst(1) = ScanStart
    /\ Len(PartitionsIdx) = 0 => Len(queries) < ScanStart
    /\ \A k \in 1 .. Len(PartitionsIdx) :
         LET p == queries[VisitFirst(k)]
         IN  /\ p.topic = topicsList[k]
             /\ \A i \in VisitFirst(k) + 1 .. VisitLast(k) :
                  /\ queries[i].op = "Replicas"
                  /\ queries[i].topic = topicsList[k]
                  /\ p.ok
                  /\ i - VisitFirst(k) <= Len(p.result)
                  /\ queries[i].partition = p.result[i - VisitFirst(k)]
             /\ k < Len(PartitionsIdx) => VisitDone(k)

\* every topic of the working set was listed, every listed partition was
\* queried and answered, and the latest answer is within the policy
ScanComplete ==
    /\ InScanOrder
    /\ Len(PartitionsIdx) = Len(topicsList)
    /\ \A k \in 1 .. Len(PartitionsIdx) : VisitDone(k)
    /\ \A i \in 1 .. Len(queries) : queries[i].ok
    /\ ~FailsPolicy

----------------------------------------------------------------------------
\* C1: with replicaLevel > 0, a partition whose replica query answers R is
\* healthy (the run does not end at it) iff Len(R) = replicaLevel; fewer and
\* more replicas both end the run Unhealthy at that partition.
C1_ExactReplicaCount ==
    (Answered /\ replicaLevel > 0) =>
       IF Len(replicas) = replicaLevel
       THEN ~EndedAtLast /\ fatal = NoFatal
       ELSE /\ EndedAtLast
            /\ IsUnhealthy
            /\ fatal.fields.topic = LastQ.topic
            /\ fatal.fields.partition = LastQ.partition

\* a first partition was passed and the next one, over-replicated, ended the
\* run Unhealthy
C1_Witness ==
    /\ replicaLevel > 0
    /\ Exited /\ IsUnhealthy
    /\ Len(replicas) > replicaLevel
    /\ Cardinality(ReplicasIdx) >= 2

\* C2: with replicaLevel = 0 every answered replica query is healthy, whatever
\* the size of the replica set (an empty one included), and the run never ends
\* Unhealthy: it ends Healthy (status 0, no fatal entry) or with a metadata error.
C2_ZeroLevelExistenceOnly ==
    replicaLevel = 0 =>
       /\ ~IsUnhealthy
       /\ Answered => (~EndedAtLast /\ fatal = NoFatal)
       /\ (Exited /\ ClientCreated) =>
             \/ exitCode = 0 /\ fatal = NoFatal
             \/ exitCode = 1 /\ IsEvaluationError

\* replicaLevel = 0, the last partition answered an empty replica set and the
\* run ended Healthy
C2_Witness ==
    /\ replicaLevel = 0
    /\ Exited /\ exitCode = 0
    /\ Answered /\ replicas = <<>>
    /\ Cardinality(ReplicasIdx) >= 2

\* C3: once a replica answer fails the policy the run is over and no further
\* broker query is issued: no partition list and no replica set, neither for
\* the same topic nor for a later one.
C3_ShortCircuitOnUnhealthy ==
    /\ [](FailsPolicy => Exited)
    /\ [][FailsPolicy => queries' = queries]_vars

\* topics [A, B], A has two partitions and the second one is unhealthy: the
\* run is over and nothing of B was queried
C3_Witness ==
    /\ Len(topicsList) = 2 /\ topicsList[1] # topicsList[2]
    /\ Exited /\ IsUnhealthy
    /\ Len(queries) = 3
    /\ queries[1].op = "Partitions" /\ queries[1].topic = topicsList[1]
    /\ Len(queries[1].result) = 2
    /\ FailsPolicy
    /\ \A i \in 1 .. Len(queries) : queries[i].topic # topicsList[2]

\* C4: the process exits with status 0 iff the scan is complete (every topic's
\* partitions listed, every partition's replicas answered, every partition
\* within the policy); every other end has status 1.  Every partition is
\* covered: at the state right after any answer that breaks the policy, and
\* right after any failed query, the run is already over with status 1, so
\* no such partition or query is ever passed over on the way to status 0.
C4_ExitZeroIffScanComplete ==
    /\ FailsPolicy => (Exited /\ exitCode = 1)
    /\ \A i \in 1 .. Len(queries) : ~queries[i].ok => (Exited /\ exitCode = 1)
    /\ ~Exited => exitCode = NoExit
    /\ Exited =>
          /\ exitCode \in {0, 1}
          /\ exitCode = 0 <=> (ClientCreated /\ ScanComplete)
          /\ (IsUnhealthy \/ IsEvaluationError) => exitCode # 0

\* a run over two topics with partitions ended with status 0
C4_Witness ==
    /\ Exited /\ exitCode = 0
    /\ Len(topicsList) = 2
    /\ Len(queries) >= 4
    /\ Answered

\* C5: a failed Partitions or Replicas query is the last query of the run (no
\* retry, no further query); the run ends with status 1 and a fatal entry
\* tagged with the topic, and with the partition for a replica query.
C5_MetadataErrorIsFatal ==
    \A i \in 1 .. Len(queries) :
       LET q == queries[i]
       IN  (q.op # "Topics" /\ ~q.ok) =>
             /\ i = Len(queries)
             /\ Exited /\ exitCode = 1
             /\ fatal.fields.topic = q.topic
             /\ IF q.op = "Partitions"
                THEN IsPartitionsError /\ fatal.fields.err = q.result
                ELSE IsReplicasError /\ fatal.fields.partition = q.partition

\* a Replicas query failed on a second partition, after the first one passed
C5_Witness ==
    /\ Len(queries) >= 3
    /\ Exited /\ ~LastQ.ok
    /\ LastQ.op = "Replicas"
    /\ queries[Len(queries) - 1].op = "Replicas"
    /\ IsReplicasError

\* C6: when the requested sequence is the single empty string, the first
\* query is the topic list; answered, it becomes the working set; failed, the
\* run ends there with a fatal entry and no partition or replica query.
C6_UnspecifiedResolvesFromBroker ==
    (Requested = Unspecified /\ ClientCreated /\ pc # "resolve") =>
       /\ queries # <<>>
       /\ queries[1].op = "Topics"
       /\ IF queries[1].ok
          THEN topicsList = queries[1].result
          ELSE /\ Len(queries) = 1
               /\ Exited /\ exitCode = 1
               /\ IsTopicsError /\ fatal.fields.err = queries[1].result

\* the topic-list query failed and the run is over
C6_Witness ==
    /\ Requested = Unspecified
    /\ Exited
    /\ queries # <<>> /\ queries[1].op = "Topics" /\ ~queries[1].ok

\* C7: for every requested sequence other than [""], empty elements next to
\* other names included, the working set is the requested sequence unchanged
\* and the topic list is never asked of the broker.
C7_GivenTopicsVerbatim ==
    Requested # Unspecified =>
       /\ topicsList = Requested
       /\ \A i \in 1 .. Len(queries) : queries[i].op # "Topics"

\* the request ["", "a"] went past the resolution and its first, empty-named
\* topic was asked for its partitions
C7_Witness ==
    /\ Requested = << <<>>, <<"a">> >>
    /\ queries # <<>>
    /\ queries[1].op = "Partitions" /\ queries[1].topic = <<>>

\* C8: when the run ends Unhealthy, the report names the first failing topic
\* and partition (the latest query) and carries expected = replicaLevel and
\* actual = Len(replicaSet) of that partition.
C8_ReportCarriesExpectedActual ==
    (Exited /\ IsUnhealthy) =>
       /\ fatal.fields.topic = LastQ.topic
       /\ fatal.fields.partition = LastQ.partition
       /\ "expected" \in DOMAIN fatal.fields
       /\ fatal.fields.expected = replicaLevel
       /\ "actual" \in DOMAIN fatal.fields
       /\ fatal.fields.actual = Len(replicas)

\* C9, as claimed: once the client was created, every end of the run has
\* closed it exactly once.
C9_ClientClosedOnceAtExit ==
    (Exited /\ ClientCreated) => (closes = 1 /\ client = "closed")

\* the number of Partitions queries for the topic of query i, up to query i
ListedBefore(i) ==
    Cardinality({j \in 1 .. i : queries[j].op = "Partitions"
                                /\ queries[j].topic = queries[i].topic})

\* C10, as claimed: topic-major and partition-minor order, a topic's
\* partition list requested exactly once before any replica query for that
\* topic, and each (topic, partition) queried at most once.
C10_EachTopicListedOnce ==
    /\ InScanOrder
    /\ \A i \in ReplicasIdx : ListedBefore(i) = 1
    /\ \A i, j \in ReplicasIdx :
         (i < j /\ queries[i].topic = queries[j].topic)
            => queries[i].partition # queries[j].partition

\* C10, amended: topic-major and partition-minor order by position: the k-th
\* partition list requested is that of the k-th entry of the working set,
\* requested once per entry and before that entry's replica queries; the
\* replica queries of an entry follow the listed order, each listed partition
\* queried at most once per entry; the next entry is not begun before every
\* partition of the entries before it was answered and passed.
C10_SequentialScanOrder ==
    /\ InScanOrder
    /\ \A k \in 1 .. Len(PartitionsIdx) :
         /\ \A i, j \in VisitFirst(k) + 1 .. VisitLast(k) :
              i # j => queries[i].partition # queries[j].partition
         /\ \A m \in 1 .. k - 1 : VisitDone(m)
    /\ FailsPolicy => Exited

\* two topics with two partitions each, the second topic's list unsorted, all
\* six queries issued
C10_Witness ==
    /\ Len(topicsList) = 2
    /\ Len(queries) = 6
    /\ queries[1].op = "Partitions" /\ Len(queries[1].result) = 2
    /\ queries[4].op = "Partitions" /\ queries[4].result = <<1, 0>>
    /\ queries[6].op = "Replicas" /\ queries[6].partition = 0

\* C11: a negative replicaLevel behaves as replicaLevel = 0: the comparison of
\* the replica count is skipped for every partition, whatever the size of its
\* replica set, so the run never ends Unhealthy: it ends Healthy (status 0, no
\* fatal entry) or with a metadata error.
C11_NegativeLevelSkipsCheck ==
    replicaLevel < 0 =>
       /\ ~IsUnhealthy
       /\ ~FailsPolicy
       /\ Answered => (~EndedAtLast /\ fatal = NoFatal)
       /\ (Exited /\ ClientCreated) =>
             \/ exitCode = 0 /\ fatal = NoFatal /\ ScanComplete
             \/ exitCode = 1 /\ IsEvaluationError

\* replicaLevel is negative, two partitions were answered, the last one with
\* the largest replica set, and the run ended Healthy
C11_Witness ==
    /\ replicaLevel < 0
    /\ Exited /\ exitCode = 0
    /\ Answered /\ Len(replicas) = MaxReplicas
    /\ Cardinality(ReplicasIdx) >= 2

====
